---- MODULE Spec2Model ----
(***************************************************************************)
(* FlowState dashboard: the footprint calculator, the daily/weekly         *)
(* submission windows and the streak tracker of components/Dashboard.tsx,  *)
(* together with the rows of the hosted store they read and write.         *)
(*                                                                         *)
(* Time is counted in units of a quarter day since 00:00 UTC of day 0.     *)
(* A Date is the instant it holds; an ISO timestamp string is that         *)
(* instant, a 'YYYY-MM-DD' string is the number of its UTC day.            *)
(***************************************************************************)
EXTENDS Integers, Sequences, FiniteSets, TLC

\* ------------------------------------------------------------------ bounds

\* the clock of the streak specification stops here
MaxTime == 16
\* the clock of the whole-dashboard specification stops after this many days
MaxDashDays == 1
\* the clock of the two-tab specification stops here
MaxTabsTime == 8
\* the clock of the period specification stops here
MaxPeriodTime == 33
\* the period specification starts from rows last written at 0..MaxStamp
MaxStamp == 3

\* ------------------------------------------------------------------ time

\* 1000 * 60 * 60 * 24 in the model's unit of time
DayMs == 4

\* 7 * 24 * 60 * 60 * 1000
oneWeekMs == 7 * DayMs

\* lastLogDate: '' (and a NULL last_log_date): no log yet
NoDate == -1

\* The zones a browser may run in: a standard offset from UTC and the amount
\* the clocks are put forward on the spring transition (0: no daylight saving).
Zones == [base : {-1, 0, 1}, dst : {0, 1}]

\* the zone whose local time is UTC
UTC == [base |-> 0, dst |-> 0]

\* The spring transition of a zone: 06:00 local standard time of local day 2.
DstStart(z) == 2 * DayMs + 1 - z.base

\* Date.prototype.getTimezoneOffset, negated: local time minus UTC at instant t
Offset(t, z) == z.base + (IF t >= DstStart(z) THEN z.dst ELSE 0)

\* the local calendar day of instant t (what toDateString renders)
toDateString(t, z) == (t + Offset(t, z)) \div DayMs

\* new Date().toISOString().split('T')[0]: the UTC calendar day of instant t
toISODate(t) == t \div DayMs

\* new Date('YYYY-MM-DD'): a date-only string is parsed as UTC midnight
parseDate(d) == d * DayMs

\* date.setHours(0, 0, 0, 0): the instant of local midnight of t's local day
setHoursZero(t, z) ==
    LET L == toDateString(t, z)
        cands == {L * DayMs - z.base, L * DayMs - z.base - z.dst}
    IN  CHOOSE m \in cands : m + Offset(m, z) = L * DayMs

\* ------------------------------------------------------------------ streak

\* Math.max, Math.min
Max(a, b) == IF a >= b THEN a ELSE b

\* a plausible slip: the upper cap is dropped
Min_NoCap(a, b) == b

Min(a, b) == IF a <= b THEN a ELSE b

\* a plausible slip: the running maximum is dropped
newLongestStreak_NoMax(currentStreak, streakData) == currentStreak

\* Math.max(currentStreak, streakData.longestStreak)
newLongestStreak(currentStreak, streakData) ==
    Max(currentStreak, streakData.longestStreak)

\* a plausible slip: a broken streak restarts from 0, like the initial state

calculateStreak_NoFloorOne(lastLogDate, currentStreakFromDB, t, z) ==
    IF lastLogDate = NoDate THEN 0
    ELSE LET today == setHoursZero(t, z)
             lastLog == setHoursZero(parseDate(lastLogDate), z)
             diffDays == (today - lastLog) \div DayMs
         IN  IF diffDays = 0 THEN currentStreakFromDB
             ELSE IF diffDays = 1 THEN currentStreakFromDB + 1
             ELSE 0

\* calculateStreak's diffDays: whole days between the two local midnights
diffDays(lastLogDate, t, z) ==
    LET today == setHoursZero(t, z)
        lastLog == setHoursZero(parseDate(lastLogDate), z)
        diffTime == today - lastLog
    IN  diffTime \div DayMs

calculateStreak(lastLogDate, currentStreakFromDB, t, z) ==
    IF lastLogDate = NoDate THEN 1
    ELSE IF diffDays(lastLogDate, t, z) = 0 THEN currentStreakFromDB
    ELSE IF diffDays(lastLogDate, t, z) = 1 THEN currentStreakFromDB + 1
    ELSE 1


\* ------------------------------------------------------------------ inputs

DailyFields == {"showerMinutes", "baths", "faucetMinutes", "flushes"}

WeeklyFields == {"laundryLoads", "dishwasherLoads", "gardenMinutes", "meatMeals",
                 "newClothingItems", "milesDriven", "recyclingItems", "compostLbs",
                 "aiQueries"}

DEFAULT_DAILY_INPUTS ==
    [showerMinutes |-> 8, baths |-> 0, faucetMinutes |-> 5, flushes |-> 5]

DEFAULT_WEEKLY_INPUTS ==
    [laundryLoads |-> 4, dishwasherLoads |-> 5, gardenMinutes |-> 15, meatMeals |-> 7,
     newClothingItems |-> 1, milesDriven |-> 100, recyclingItems |-> 5,
     compostLbs |-> 2, aiQueries |-> 20]

\* { ...dailyInputs, ...weeklyInputs }
Combine(daily, weekly) ==
    [f \in DailyFields \cup WeeklyFields |->
        IF f \in WeeklyFields THEN weekly[f] ELSE daily[f]]

\* the nine weekly fields copied out of a stored WaterUsageMetrics
WeeklyOf(inputs) == [f \in WeeklyFields |-> inputs[f]]

\* a number the store does not hold (NULL, undefined in the app)
Missing == -1000

\* a || b on numbers: 0 and a missing value are falsy
OrDefault(a, b) == IF a \in {0, Missing} THEN b ELSE a

\* ------------------------------------------------------------------ calculator

\* WATER_METRICS, in hundredths of a gallon per unit
SHOWER_GPM == 210
BATH_GPB == 4000
FAUCET_GPM == 150
FLUSH_GPF == 160
LAUNDRY_GPL == 3000
DISHWASHER_GPC == 600
GARDEN_GPM == 1200
CLOTHING_AVG_GPI == 140000
DIET_MEAT_GPM == 45000
FUEL_GPM == 50
AI_QUERY_GPQ == 13
RECYCLING_CREDIT == -500
COMPOST_CREDIT == -1500

BASELINE_CANADIAN_WEEKLY == 4200

\* a plausible slip: only the falsy sizes are replaced
householdDivisor_NoMax(householdSize) == OrDefault(householdSize, 1)

\* Math.max(1, user.householdSize || 1)
householdDivisor(householdSize) == Max(1, OrDefault(householdSize, 1))

\* a plausible slip: Math.floor instead of Math.round
RoundDiv_Floor(n, d) == n \div d

\* Math.round(n / d) for d > 0: the nearest integer, a tie going up
RoundDiv(n, d) == (2 * n + d) \div (2 * d)

\* Gallons are exact fractions over the common denominator den = 100 * h, where h is
\* the household divisor; a quantity is held as its numerator over den. (The browser
\* computes in binary floating point, whose results differ from these decimals by
\* rounding dust only.)

\* x hundredths of a gallon, as a numerator over den
perPerson(x, h) == x * h

\* a plausible slip: a shared category is not divided by the household
perCapita_Undivided(x, h) == x * h

\* x hundredths of a gallon divided by householdDivisor, as a numerator over den
perCapita(x, h) == x

\* a plausible slip: one point of score per 50 gallons
score_Per50(grandTotal, den) ==
    Max(0, Min(100, RoundDiv(6500 * den - grandTotal, 50 * den)))

\* a plausible slip: the raw score is truncated, not rounded
score_Floor(grandTotal, den) ==
    Max(0, Min(100, (5500 * den - grandTotal) \div (40 * den)))

\* rawScore = 100 - (grandTotal - 1500) / 40 = (5500 * den - grandTotal) / (40 * den);
\* score = Math.max(0, Math.min(100, Math.round(rawScore)))
score(grandTotal, den) ==
    Max(0, Min(100, RoundDiv(5500 * den - grandTotal, 40 * den)))

\* a plausible slip: the baseline is compared with the total, not the total with it
trend_Inverted(grandTotal, den) == BASELINE_CANADIAN_WEEKLY * den - grandTotal

\* trend = (grandTotal - BASELINE) / BASELINE * 100, held as the numerator of
\* trend / 100 over BASELINE_CANADIAN_WEEKLY * den
trend(grandTotal, den) == grandTotal - BASELINE_CANADIAN_WEEKLY * den

\* the stats memo
stats(inputs, householdSize) ==
    LET h == householdDivisor(householdSize)
        den == 100 * h
        showerWeekly == perPerson(inputs.showerMinutes * SHOWER_GPM * 7, h)
        bathWeekly == perPerson(inputs.baths * BATH_GPB, h)
        faucetWeekly == perPerson(inputs.faucetMinutes * FAUCET_GPM * 7, h)
        toiletWeekly == perPerson(inputs.flushes * FLUSH_GPF * 7, h)
        laundryWeekly == perCapita(inputs.laundryLoads * LAUNDRY_GPL, h)
        dishwasherWeekly == perCapita(inputs.dishwasherLoads * DISHWASHER_GPC, h)
        gardenWeekly == perCapita(inputs.gardenMinutes * GARDEN_GPM, h)
        clothingWeekly == perPerson(inputs.newClothingItems * CLOTHING_AVG_GPI, h)
        dietWeekly == perPerson(inputs.meatMeals * DIET_MEAT_GPM, h)
        transportWeekly == perPerson(inputs.milesDriven * FUEL_GPM, h)
        aiWeekly == perPerson(inputs.aiQueries * AI_QUERY_GPQ, h)
        recyclingWeekly == perPerson(inputs.recyclingItems * RECYCLING_CREDIT, h)
        compostWeekly == perPerson(inputs.compostLbs * COMPOST_CREDIT, h)
        directTotal == showerWeekly + bathWeekly + faucetWeekly + toiletWeekly
                       + laundryWeekly + dishwasherWeekly + gardenWeekly
        virtualTotal == clothingWeekly + dietWeekly + transportWeekly + aiWeekly
                        + recyclingWeekly + compostWeekly
        grandTotal == directTotal + virtualTotal
    IN  [den |-> den,
         breakdown |-> [Showers |-> showerWeekly, Baths |-> bathWeekly,
                        Toilet |-> toiletWeekly, Faucets |-> faucetWeekly,
                        Laundry |-> laundryWeekly, Dishes |-> dishwasherWeekly,
                        Garden |-> gardenWeekly, Clothing |-> clothingWeekly,
                        Diet |-> dietWeekly, Transport |-> transportWeekly,
                        Recycling |-> recyclingWeekly, Compost |-> compostWeekly]
                       @@ ("AI Usage" :> aiWeekly),
         directTotal |-> directTotal,
         virtualTotal |-> virtualTotal,
         grandTotal |-> grandTotal,
         score |-> score(grandTotal, den),
         trend |-> trend(grandTotal, den)]

\* a plausible slip: the weekly total is published, not four times it
newMonthlyUsage_Weekly(inputs, householdSize) ==
    LET st == stats(inputs, householdSize) IN RoundDiv(st.grandTotal, st.den)

\* a plausible slip: a published usage is never below zero
newMonthlyUsage_Clamped(inputs, householdSize) ==
    LET st == stats(inputs, householdSize) IN Max(0, RoundDiv(4 * st.grandTotal, st.den))

\* Math.round(stats.grandTotal * 4)
newMonthlyUsage(inputs, householdSize) ==
    LET st == stats(inputs, householdSize) IN RoundDiv(4 * st.grandTotal, st.den)

\* ------------------------------------------------------------------ state

VARIABLES
    now,     \* the clock: Date.now()
    zone,    \* the browser's time zone
    db,      \* the store: the user's row of each table (<<>>: no row)
    user,    \* per tab: App's user state, the Dashboard's user prop
    dash,    \* per tab: the Dashboard component's state and memos
    pc,      \* per tab: where the running submit handler is waiting
    req,     \* per tab: what the running submit handler captured when it started
    alert    \* per tab: the alert() shown by the last submit handler run

vars == <<now, zone, db, user, dash, pc, req, alert>>

Tabs == DOMAIN pc

\* the slider moves of the model: the input moved and the position it is moved to
DailyMoves == [field : {"showerMinutes"}, value : {9}]
WeeklyMoves == [field : {"recyclingItems"}, value : {6}]
\* the household sizes a profile is created with: 1..MaxHousehold
MaxHousehold == 1

NoReq == [kind |-> "none"]

\* ------------------------------------------------------------------ App

\* fetchUserProfile: the rows of the store mapped to the app's User
fetchUserProfile(store) ==
    [householdSize |-> store.profiles.household_size,
     monthlyUsage |-> store.profiles.monthly_usage,
     dashboardData |->
        IF store.dashboard_data = <<>> THEN <<>>
        ELSE <<[inputs |-> store.dashboard_data[1].inputs,
                isSubmitted |-> store.dashboard_data[1].is_submitted,
                lastUpdated |-> store.dashboard_data[1].last_updated]>>,
     dailyHygieneData |->
        IF store.daily_hygiene_data = <<>> THEN <<>>
        ELSE <<[inputs |-> store.daily_hygiene_data[1].inputs,
                isSubmitted |-> store.daily_hygiene_data[1].is_submitted,
                lastUpdated |-> store.daily_hygiene_data[1].last_updated]>>,
     streakData |->
        IF store.streak_data = <<>> THEN <<>>
        ELSE <<[currentStreak |-> store.streak_data[1].current_streak,
                longestStreak |-> store.streak_data[1].longest_streak,
                lastLogDate |-> store.streak_data[1].last_log_date,
                totalPoints |-> store.streak_data[1].total_points]>>]

\* ------------------------------------------------------------------ Dashboard

\* a plausible slip: a rolling 24-hour window instead of the calendar date
isNewDay_Rolling24h(u, t, z) ==
    IF u.dailyHygieneData = <<>> THEN TRUE
    ELSE (t - u.dailyHygieneData[1].lastUpdated) >= DayMs

\* the isNewDay memo, computed at instant t
isNewDay(u, t, z) ==
    IF u.dailyHygieneData = <<>> THEN TRUE
    ELSE LET lastDate == toDateString(u.dailyHygieneData[1].lastUpdated, z)
             today == toDateString(t, z)
         IN  lastDate # today

\* a plausible slip: the week is over as soon as seven days have passed
isNewWeek_AtSevenDays(u, t) ==
    IF u.dashboardData = <<>> THEN FALSE
    ELSE (t - u.dashboardData[1].lastUpdated) >= oneWeekMs

\* the isNewWeek memo, computed at instant t
isNewWeek(u, t) ==
    IF u.dashboardData = <<>> THEN FALSE
    ELSE LET last == u.dashboardData[1].lastUpdated
         IN  (t - last) > oneWeekMs

\* the useState initializers, run when the Dashboard mounts at instant t
InitialState(u, t, z) ==
    [isNewDay |-> isNewDay(u, t, z),
     isNewWeek |-> isNewWeek(u, t),
     dailyInputs |->
        IF u.dailyHygieneData = <<>> THEN DEFAULT_DAILY_INPUTS
        ELSE u.dailyHygieneData[1].inputs,
     isDailySubmitted |->
        IF isNewDay(u, t, z) THEN FALSE
        ELSE IF u.dailyHygieneData = <<>> THEN FALSE
        ELSE u.dailyHygieneData[1].isSubmitted,
     weeklyInputs |->
        IF u.dashboardData = <<>> THEN DEFAULT_WEEKLY_INPUTS
        ELSE [f \in WeeklyFields |->
                OrDefault(u.dashboardData[1].inputs[f], DEFAULT_WEEKLY_INPUTS[f])],
     isWeeklySubmitted |->
        IF isNewWeek(u, t) THEN FALSE
        ELSE IF u.dashboardData = <<>> THEN FALSE
        ELSE u.dashboardData[1].isSubmitted,
     streakData |->
        IF u.streakData = <<>>
        THEN [currentStreak |-> 0, longestStreak |-> 0, lastLogDate |-> NoDate,
              totalPoints |-> 0]
        ELSE u.streakData[1],
     saving |-> FALSE]

\* the "Sync state if user prop changes" effect, run at instant t on state d
SyncEffect(d, u, t, z) ==
    LET d1 == IF u.dailyHygieneData = <<>> THEN d
              ELSE LET lastDate == toDateString(u.dailyHygieneData[1].lastUpdated, z)
                       today == toDateString(t, z)
                   IN  [d EXCEPT
                          !.dailyInputs = u.dailyHygieneData[1].inputs,
                          !.isDailySubmitted =
                              (lastDate = today) /\ u.dailyHygieneData[1].isSubmitted]
        d2 == IF u.dashboardData = <<>> THEN d1
              ELSE [d1 EXCEPT
                      !.weeklyInputs = WeeklyOf(u.dashboardData[1].inputs),
                      !.isWeeklySubmitted =
                          ((t - u.dashboardData[1].lastUpdated) <= oneWeekMs)
                          /\ u.dashboardData[1].isSubmitted]
        d3 == IF u.streakData = <<>> THEN d2
              ELSE [d2 EXCEPT !.streakData = u.streakData[1]]
    IN  d3

\* the Dashboard mounting for user u: the initializers, then the effect's first run
Mount(u, t, z) == SyncEffect(InitialState(u, t, z), u, t, z)

\* ------------------------------------------------------------------ actions

\* Time passes, up to the bound. A submission's requests are answered within one
\* unit of time, so at most one unit boundary passes while a handler waits.
ClockBy(step, limit) ==
    /\ now + step <= limit
    /\ \A s \in Tabs : pc[s] # "idle" => req[s].now = now
    /\ now' = now + step
    /\ UNCHANGED <<zone, db, user, dash, pc, req, alert>>

Tick == ClockBy(1, MaxTime)

\* the page is (re)loaded in tab s: fetchUserProfile, then the Dashboard mounts
Reload(s) ==
    /\ pc[s] = "idle"
    /\ user' = [user EXCEPT ![s] = fetchUserProfile(db)]
    /\ dash' = [dash EXCEPT ![s] = Mount(fetchUserProfile(db), now, zone)]
    /\ alert' = [alert EXCEPT ![s] = "none"]
    /\ UNCHANGED <<now, zone, db, pc, req>>

\* a plausible slip: Garden is left out of the direct list
isDirect_NoGarden(category) ==
    category \in {"Showers", "Baths", "Toilet", "Faucets", "Laundry", "Dishes"}

\* the breakdown rendering's isDirect: the fixed list of direct categories
isDirect(category) ==
    category \in {"Showers", "Baths", "Toilet", "Faucets", "Laundry", "Dishes", "Garden"}

\* the stats memo of tab s, as rendered
statsOf(s) == stats(Combine(dash[s].dailyInputs, dash[s].weeklyInputs), user[s].householdSize)

\* a plausible slip: the input is stored but the submitted flag is left standing
handleDailyInputChange_KeepsFlag(s, field, value) ==
    /\ dash' = [dash EXCEPT ![s].dailyInputs[field] = value]
    /\ UNCHANGED <<now, zone, db, user, pc, req, alert>>

handleDailyInputChange(s, field, value) ==
    /\ dash' = [dash EXCEPT ![s].dailyInputs[field] = value,
                            ![s].isDailySubmitted = FALSE]
    /\ UNCHANGED <<now, zone, db, user, pc, req, alert>>

handleWeeklyInputChange(s, field, value) ==
    /\ dash' = [dash EXCEPT ![s].weeklyInputs[field] = value,
                            ![s].isWeeklySubmitted = FALSE]
    /\ UNCHANGED <<now, zone, db, user, pc, req, alert>>

\* the Daily Log card's Edit button
DailyEdit(s) ==
    /\ dash[s].isDailySubmitted
    /\ dash' = [dash EXCEPT ![s].isDailySubmitted = FALSE]
    /\ UNCHANGED <<now, zone, db, user, pc, req, alert>>

\* the Weekly Log card's Edit button
WeeklyEdit(s) ==
    /\ dash[s].isWeeklySubmitted
    /\ dash' = [dash EXCEPT ![s].isWeeklySubmitted = FALSE]
    /\ UNCHANGED <<now, zone, db, user, pc, req, alert>>

\* a plausible slip: the guard compares the local date instead of todayStr
sameDayGuard_LocalDate(streakData, t, z) ==
    streakData.lastLogDate = toDateString(t, z)

\* "Prevent double-submission on the same day": streakData.lastLogDate === todayStr
sameDayGuard(streakData, t, z) ==
    streakData.lastLogDate = toISODate(t)

\* handleDailySubmit up to its first await: the Log Today button is clicked
handleDailySubmit(s) ==
    \* the button is enabled: disabled={isDailySubmitted || saving}
    /\ ~dash[s].isDailySubmitted /\ ~dash[s].saving
    /\ LET todayStr == toISODate(now)
           streakData == dash[s].streakData
       IN  IF sameDayGuard(streakData, now, zone)
           THEN /\ alert' = [alert EXCEPT ![s] = "already logged today"]
                /\ UNCHANGED <<dash, pc, req>>
           ELSE LET currentStreak == calculateStreak(streakData.lastLogDate,
                                                     streakData.currentStreak, now, zone)
                    longestStreak == newLongestStreak(currentStreak, streakData)
                    totalPoints == streakData.totalPoints + 1
                IN  /\ req' = [req EXCEPT ![s] =
                             [kind |-> "daily",
                              user |-> user[s],
                              now |-> now,
                              inputs |-> dash[s].dailyInputs,
                              streak |-> [currentStreak |-> currentStreak,
                                          longestStreak |-> longestStreak,
                                          lastLogDate |-> todayStr,
                                          totalPoints |-> totalPoints]]]
                    /\ dash' = [dash EXCEPT ![s].saving = TRUE]
                    /\ pc' = [pc EXCEPT ![s] = "daily_hygiene_data"]
                    /\ alert' = [alert EXCEPT ![s] = "none"]
    /\ UNCHANGED <<now, zone, db, user>>

\* a plausible slip: the submitted flag is set before the writes are awaited
SubmitFailed_Optimistic(s, message) ==
    /\ alert' = [alert EXCEPT ![s] = message]
    /\ dash' = IF message = "Failed to save daily data"
               THEN [dash EXCEPT ![s].saving = FALSE, ![s].isDailySubmitted = TRUE]
               ELSE [dash EXCEPT ![s].saving = FALSE, ![s].isWeeklySubmitted = TRUE]
    /\ pc' = [pc EXCEPT ![s] = "idle"]
    /\ req' = [req EXCEPT ![s] = NoReq]
    /\ UNCHANGED user

\* a plausible slip: setSaving(false) sits at the end of the try block, not in finally
SubmitFailed_SavingStuck(s, message) ==
    /\ alert' = [alert EXCEPT ![s] = message]
    /\ pc' = [pc EXCEPT ![s] = "idle"]
    /\ req' = [req EXCEPT ![s] = NoReq]
    /\ UNCHANGED <<user, dash>>

\* a submit handler's catch and finally blocks
SubmitFailed(s, message) ==
    /\ alert' = [alert EXCEPT ![s] = message]
    /\ dash' = [dash EXCEPT ![s].saving = FALSE]
    /\ pc' = [pc EXCEPT ![s] = "idle"]
    /\ req' = [req EXCEPT ![s] = NoReq]
    /\ UNCHANGED user

\* handleDailySubmit, step 1: the daily_hygiene_data upsert answers
DailyHygieneUpsert(s) ==
    /\ pc[s] = "daily_hygiene_data"
    /\ \/ /\ db' = [db EXCEPT !.daily_hygiene_data =
                       <<[inputs |-> req[s].inputs, is_submitted |-> TRUE,
                          last_updated |-> req[s].now]>>]
          /\ pc' = [pc EXCEPT ![s] = "streak_data"]
          /\ UNCHANGED <<user, dash, req, alert>>
       \/ /\ SubmitFailed(s, "Failed to save daily data")
          /\ UNCHANGED db
    /\ UNCHANGED <<now, zone>>

\* handleDailySubmit, steps 2 and 3: the streak_data upsert answers
StreakUpsert(s) ==
    /\ pc[s] = "streak_data"
    /\ \/ LET newStreakData == req[s].streak
              updatedUser == [req[s].user EXCEPT
                                !.dailyHygieneData =
                                    <<[inputs |-> req[s].inputs, isSubmitted |-> TRUE,
                                       lastUpdated |-> req[s].now]>>,
                                !.streakData = <<newStreakData>>]
              set == [dash[s] EXCEPT !.isDailySubmitted = TRUE,
                                     !.streakData = newStreakData,
                                     !.saving = FALSE,
                                     !.isNewDay = isNewDay(updatedUser, now, zone)]
          IN  /\ db' = [db EXCEPT !.streak_data =
                           <<[current_streak |-> newStreakData.currentStreak,
                              longest_streak |-> newStreakData.longestStreak,
                              last_log_date |-> newStreakData.lastLogDate,
                              total_points |-> newStreakData.totalPoints]>>]
              /\ user' = [user EXCEPT ![s] = updatedUser]
              /\ dash' = [dash EXCEPT ![s] = SyncEffect(set, updatedUser, now, zone)]
              /\ pc' = [pc EXCEPT ![s] = "idle"]
              /\ req' = [req EXCEPT ![s] = NoReq]
              /\ UNCHANGED alert
       \/ /\ SubmitFailed(s, "Failed to save daily data")
          /\ UNCHANGED db
    /\ UNCHANGED <<now, zone>>

\* handleWeeklySubmit up to its first await: the Log Week button is clicked
handleWeeklySubmit(s) ==
    \* the button is enabled: disabled={isWeeklySubmitted || saving}
    /\ ~dash[s].isWeeklySubmitted /\ ~dash[s].saving
    /\ LET combinedInputs == Combine(dash[s].dailyInputs, dash[s].weeklyInputs)
       IN  req' = [req EXCEPT ![s] =
                    [kind |-> "weekly",
                     user |-> user[s],
                     now |-> now,
                     inputs |-> combinedInputs,
                     newMonthlyUsage |->
                         newMonthlyUsage(combinedInputs, user[s].householdSize)]]
    /\ dash' = [dash EXCEPT ![s].saving = TRUE]
    /\ pc' = [pc EXCEPT ![s] = "dashboard_data"]
    /\ alert' = [alert EXCEPT ![s] = "none"]
    /\ UNCHANGED <<now, zone, db, user>>

\* handleWeeklySubmit, step 1: the dashboard_data upsert answers
DashboardUpsert(s) ==
    /\ pc[s] = "dashboard_data"
    /\ \/ /\ db' = [db EXCEPT !.dashboard_data =
                       <<[inputs |-> req[s].inputs, is_submitted |-> TRUE,
                          last_updated |-> req[s].now]>>]
          /\ pc' = [pc EXCEPT ![s] = "profiles"]
          /\ UNCHANGED <<user, dash, req, alert>>
       \/ /\ SubmitFailed(s, "Failed to save weekly data")
          /\ UNCHANGED db
    /\ UNCHANGED <<now, zone>>

\* handleWeeklySubmit, steps 2 and 3: the profiles update answers
ProfilesUpdate(s) ==
    /\ pc[s] = "profiles"
    /\ \/ LET updatedUser == [req[s].user EXCEPT
                                !.dashboardData =
                                    <<[inputs |-> req[s].inputs, isSubmitted |-> TRUE,
                                       lastUpdated |-> req[s].now]>>,
                                !.monthlyUsage = req[s].newMonthlyUsage]
              set == [dash[s] EXCEPT !.isWeeklySubmitted = TRUE,
                                     !.saving = FALSE,
                                     !.isNewWeek = isNewWeek(updatedUser, now)]
          IN  /\ db' = [db EXCEPT !.profiles.monthly_usage = req[s].newMonthlyUsage]
              /\ user' = [user EXCEPT ![s] = updatedUser]
              /\ dash' = [dash EXCEPT ![s] = SyncEffect(set, updatedUser, now, zone)]
              /\ pc' = [pc EXCEPT ![s] = "idle"]
              /\ req' = [req EXCEPT ![s] = NoReq]
              /\ UNCHANGED alert
       \/ /\ SubmitFailed(s, "Failed to save weekly data")
          /\ UNCHANGED db
    /\ UNCHANGED <<now, zone>>

\* ------------------------------------------------------------------ specifications

\* no row of any table but the profile, as after sign-up
NewAccount(h) ==
    [profiles |-> [household_size |-> h, monthly_usage |-> 0],
     dashboard_data |-> <<>>,
     daily_hygiene_data |-> <<>>,
     streak_data |-> <<>>]

\* the tabs of `tabs` freshly loaded from the store, in zone z at instant t
Loaded(tabs, store, t, z) ==
    /\ now = t
    /\ zone = z
    /\ db = store
    /\ user = [s \in tabs |-> fetchUserProfile(store)]
    /\ dash = [s \in tabs |-> Mount(fetchUserProfile(store), t, z)]
    /\ pc = [s \in tabs |-> "idle"]
    /\ req = [s \in tabs |-> NoReq]
    /\ alert = [s \in tabs |-> "none"]

\* The streak tracker: one tab of a new account logging day after day, in any zone.
Init == \E z \in Zones : Loaded({1}, NewAccount(1), 0, z)

Next ==
    \/ Tick
    \/ \E s \in Tabs : Reload(s)
    \/ \E s \in Tabs : DailyEdit(s)
    \/ \E s \in Tabs : handleDailySubmit(s)
    \/ \E s \in Tabs : DailyHygieneUpsert(s)
    \/ \E s \in Tabs : StreakUpsert(s)

Spec == Init /\ [][Next]_vars

\* The whole dashboard in one tab: both logs, their inputs and their Edit buttons.
InitDash == \E h \in 1..MaxHousehold : Loaded({1}, NewAccount(h), 0, UTC)

\* in this specification the clock is read once a day
DashTick == ClockBy(DayMs, MaxDashDays * DayMs)

NextDash ==
    \/ DashTick
    \/ \E s \in Tabs : Reload(s)
    \/ \E s \in Tabs, m \in DailyMoves : handleDailyInputChange(s, m.field, m.value)
    \/ \E s \in Tabs, m \in WeeklyMoves : handleWeeklyInputChange(s, m.field, m.value)
    \/ \E s \in Tabs : DailyEdit(s)
    \/ \E s \in Tabs : WeeklyEdit(s)
    \/ \E s \in Tabs : handleDailySubmit(s)
    \/ \E s \in Tabs : DailyHygieneUpsert(s)
    \/ \E s \in Tabs : StreakUpsert(s)
    \/ \E s \in Tabs : handleWeeklySubmit(s)
    \/ \E s \in Tabs : DashboardUpsert(s)
    \/ \E s \in Tabs : ProfilesUpdate(s)

SpecDash == InitDash /\ [][NextDash]_vars

\* Two tabs of the same user, each with its own snapshot of the streak.
InitTabs == Loaded({1, 2}, NewAccount(1), 0, UTC)

TabsTick == ClockBy(1, MaxTabsTime)

NextTabs ==
    \/ TabsTick
    \/ \E s \in Tabs : Reload(s)
    \/ \E s \in Tabs : DailyEdit(s)
    \/ \E s \in Tabs : handleDailySubmit(s)
    \/ \E s \in Tabs : DailyHygieneUpsert(s)
    \/ \E s \in Tabs : StreakUpsert(s)

SpecTabs == InitTabs /\ [][NextTabs]_vars

\* The calculator: one tab whose sliders are moved, for every household size a
\* profile may hold.
HouseholdSizes == {Missing, -2, 0, 1, 2, 3}

\* the slider positions of this specification (each within its slider's range)
CalcDailyMoves ==
    [field : {"showerMinutes"}, value : {8, 10, 12}]
    \cup [field : {"baths"}, value : {0, 1}]
    \cup [field : {"faucetMinutes"}, value : {5, 20}]

CalcWeeklyMoves ==
    [field : {"laundryLoads"}, value : {4, 10}]
    \cup [field : {"dishwasherLoads"}, value : {2, 5}]
    \cup [field : {"meatMeals"}, value : {2, 5, 7}]
    \cup [field : {"newClothingItems"}, value : {0, 1, 5}]
    \cup [field : {"milesDriven"}, value : {0, 100}]
    \cup [field : {"compostLbs"}, value : {2, 20}]
    \cup [field : {"aiQueries"}, value : {20, 130, 150}]

InitCalc == \E h \in HouseholdSizes : Loaded({1}, NewAccount(h), 0, UTC)

NextCalc ==
    \/ \E s \in Tabs, m \in CalcDailyMoves : handleDailyInputChange(s, m.field, m.value)
    \/ \E s \in Tabs, m \in CalcWeeklyMoves : handleWeeklyInputChange(s, m.field, m.value)

SpecCalc == InitCalc /\ [][NextCalc]_vars

\* The period checks alone: a returning user's rows, last written at any instant up
\* to MaxStamp (-1: no row), and a tab that is reloaded as time passes.
ReturningAccount(d, w) ==
    [profiles |-> [household_size |-> 1, monthly_usage |-> 0],
     dashboard_data |->
        IF w < 0 THEN <<>>
        ELSE <<[inputs |-> Combine(DEFAULT_DAILY_INPUTS, DEFAULT_WEEKLY_INPUTS),
                is_submitted |-> TRUE, last_updated |-> w]>>,
     daily_hygiene_data |->
        IF d < 0 THEN <<>>
        ELSE <<[inputs |-> DEFAULT_DAILY_INPUTS, is_submitted |-> TRUE,
                last_updated |-> d]>>,
     streak_data |-> <<>>]

InitPeriod ==
    \E z \in Zones, d \in (-1)..MaxStamp, w \in (-1)..MaxStamp :
        Loaded({1}, ReturningAccount(d, w), MaxStamp, z)

PeriodTick == ClockBy(1, MaxPeriodTime)

NextPeriod ==
    \/ PeriodTick
    \/ \E s \in Tabs : Reload(s)

SpecPeriod == InitPeriod /\ [][NextPeriod]_vars

\* The credits: a returning user whose last week, logged more than a week ago, was
\* a thrifty one (every slider at the low end of its range, the two credit sliders
\* at their defaults), moving the credit sliders and logging the week.
ThriftyInputs ==
    [showerMinutes |-> 1, baths |-> 0, faucetMinutes |-> 1, flushes |-> 1,
     laundryLoads |-> 0, dishwasherLoads |-> 0, gardenMinutes |-> 0,
     meatMeals |-> 0, newClothingItems |-> 0, milesDriven |-> 0,
     recyclingItems |-> 5, compostLbs |-> 2, aiQueries |-> 0]

ThriftyAccount(h) ==
    [profiles |-> [household_size |-> h,
                   monthly_usage |-> newMonthlyUsage(ThriftyInputs, h)],
     dashboard_data |->
        <<[inputs |-> ThriftyInputs, is_submitted |-> TRUE, last_updated |-> 0]>>,
     daily_hygiene_data |->
        <<[inputs |-> [f \in DailyFields |-> ThriftyInputs[f]], is_submitted |-> TRUE,
           last_updated |-> 0]>>,
     streak_data |-> <<>>]

\* the slider positions of this specification (each within its slider's range)
CreditWeeklyMoves ==
    [field : {"recyclingItems"}, value : {5, 50}]
    \cup [field : {"compostLbs"}, value : {2, 20}]
    \cup [field : {"meatMeals"}, value : {0, 1}]

InitCredit == \E h \in {1, 2} : Loaded({1}, ThriftyAccount(h), oneWeekMs + 1, UTC)

NextCredit ==
    \/ \E s \in Tabs : Reload(s)
    \/ \E s \in Tabs, m \in CreditWeeklyMoves : handleWeeklyInputChange(s, m.field, m.value)
    \/ \E s \in Tabs : WeeklyEdit(s)
    \/ \E s \in Tabs : handleWeeklySubmit(s)
    \/ \E s \in Tabs : DashboardUpsert(s)
    \/ \E s \in Tabs : ProfilesUpdate(s)

SpecCredit == InitCredit /\ [][NextCredit]_vars

\* The weekly log and the Account page: the household size is changed between
\* weekly logs.
AccountHouseholds == {1, 2, 3}

\* Account's handleSubmit, seen from the dashboard: the user opens the Account page,
\* saves household size h, and returns to the dashboard, which mounts anew
AccountSubmit(s, h) ==
    /\ pc[s] = "idle"
    /\ \/ LET updatedUser == [user[s] EXCEPT !.householdSize = h]
          IN  /\ db' = [db EXCEPT !.profiles.household_size = h]
              /\ user' = [user EXCEPT ![s] = updatedUser]
              /\ dash' = [dash EXCEPT ![s] = Mount(updatedUser, now, zone)]
       \/ /\ dash' = [dash EXCEPT ![s] = Mount(user[s], now, zone)]
          /\ UNCHANGED <<db, user>>
    /\ alert' = [alert EXCEPT ![s] = "none"]
    /\ UNCHANGED <<now, zone, pc, req>>

InitAccount == Loaded({1}, NewAccount(1), 0, UTC)

NextAccount ==
    \/ \E s \in Tabs : Reload(s)
    \/ \E s \in Tabs, m \in WeeklyMoves : handleWeeklyInputChange(s, m.field, m.value)
    \/ \E s \in Tabs : WeeklyEdit(s)
    \/ \E s \in Tabs : handleWeeklySubmit(s)
    \/ \E s \in Tabs : DashboardUpsert(s)
    \/ \E s \in Tabs : ProfilesUpdate(s)
    \/ \E s \in Tabs, h \in AccountHouseholds : AccountSubmit(s, h)

SpecAccount == InitAccount /\ [][NextAccount]_vars

\* The whole dashboard with its requests answered: every awaited write sooner or
\* later succeeds or fails, so a handler waiting on one goes on.
SpecSaving ==
    /\ InitDash
    /\ [][NextDash]_vars
    /\ WF_vars(DailyHygieneUpsert(1))
    /\ WF_vars(StreakUpsert(1))
    /\ WF_vars(DashboardUpsert(1))
    /\ WF_vars(ProfilesUpdate(1))

\* ------------------------------------------------------------------ claims

\* C1: a daily submission attempted while streakData.lastLogDate already equals
\* today's date is refused with the "already logged today" alert and changes neither
\* the tab's state (streak counters, flags, user) nor the store; the refusal leaves the
\* attempt enabled with the same date, so repeating it is refused the same way.
C1_DuplicateRefused ==
    [][\A s \in Tabs :
         (handleDailySubmit(s) /\ dash[s].streakData.lastLogDate = toISODate(now))
         => /\ alert'[s] = "already logged today"
            /\ dash' = dash /\ user' = user /\ db' = db /\ pc' = pc /\ req' = req]_vars

\* a refusal has been shown and the same attempt can be repeated at once
C1_Witness ==
    \E s \in Tabs :
        /\ alert[s] = "already logged today"
        /\ pc[s] = "idle" /\ ~dash[s].isDailySubmitted /\ ~dash[s].saving
        /\ dash[s].streakData.lastLogDate = toISODate(now)
        /\ db.streak_data # <<>> /\ db.streak_data[1].last_log_date = toISODate(now)

\* the step in which tab s's daily submission completes: both writes were applied
DailyLogSucceeds(s) ==
    pc[s] = "streak_data" /\ pc'[s] = "idle" /\ alert'[s] = "none"

\* the instant of the log that tab s's streak snapshot records: the daily row's
\* lastUpdated, when it lies on the date the snapshot holds as lastLogDate
previousLog(s) == req[s].user.dailyHygieneData[1].lastUpdated

\* tab s's submission in flight was made on calendar day `day`, and the log before it
\* on calendar day `prev`, by the UTC calendar and by the browser's calendar alike
LoggedOn(s, prev, day) ==
    /\ req[s].user.dailyHygieneData # <<>>
    /\ toISODate(previousLog(s)) = prev /\ toDateString(previousLog(s), zone) = prev
    /\ toISODate(req[s].now) = day /\ toDateString(req[s].now, zone) = day

\* C2: from NoHistory the first successful log gives currentStreak 1; a successful log
\* made exactly one calendar day after the previous one gives currentStreak + 1, so
\* logs on days D, D+1, D+2 give 1, 2, 3; and longestStreak is the running maximum of
\* currentStreak after each log.
C2_ConsecutiveDays ==
    [][\A s \in Tabs :
         DailyLogSucceeds(s) =>
            LET before == dash[s].streakData
                after == dash'[s].streakData
            IN  /\ before.lastLogDate = NoDate => after.currentStreak = 1
                /\ ( /\ before.lastLogDate # NoDate
                     /\ LoggedOn(s, before.lastLogDate, before.lastLogDate + 1) )
                   => after.currentStreak = before.currentStreak + 1
                /\ after.longestStreak = Max(before.longestStreak, after.currentStreak)]_vars

\* C3: a successful log made more than one calendar day after the previous one sets
\* currentStreak to exactly 1, and longestStreak keeps its prior value when that value
\* is greater than 1.
C3_GapResets ==
    [][\A s \in Tabs :
         DailyLogSucceeds(s) =>
            LET before == dash[s].streakData
                after == dash'[s].streakData
            IN  ( /\ before.lastLogDate # NoDate
                  /\ toISODate(req[s].now) > before.lastLogDate + 1
                  /\ LoggedOn(s, before.lastLogDate, toISODate(req[s].now)) )
                => /\ after.currentStreak = 1
                   /\ before.longestStreak > 1
                      => after.longestStreak = before.longestStreak]_vars

\* C4: once a daily log has succeeded, currentStreak is at least 1, in the tab and in
\* the store, whichever branch of calculateStreak computed it.
C4_StreakAtLeastOne ==
    /\ \A s \in Tabs :
          dash[s].streakData.lastLogDate # NoDate => dash[s].streakData.currentStreak >= 1
    /\ db.streak_data # <<>> => db.streak_data[1].current_streak >= 1

\* a streak of at least 2 was broken by a gap and restarted at 1
C4_Witness ==
    \E s \in Tabs :
        /\ dash[s].streakData.currentStreak = 1
        /\ dash[s].streakData.longestStreak >= 2
        /\ db.streak_data # <<>> /\ db.streak_data[1].current_streak = 1

\* C5: longestStreak never decreases, in the tab and in the store, and after every
\* log longestStreak >= currentStreak.
C5_LongestMonotone ==
    [][/\ \A s \in Tabs :
            /\ dash'[s].streakData.longestStreak >= dash[s].streakData.longestStreak
            /\ dash'[s].streakData.longestStreak >= dash'[s].streakData.currentStreak
       /\ (db.streak_data # <<>>)
          => /\ db'.streak_data # <<>>
             /\ db'.streak_data[1].longest_streak >= db.streak_data[1].longest_streak
             /\ db'.streak_data[1].longest_streak >= db'.streak_data[1].current_streak]_vars

\* after a broken streak the longest streak stands above the current one
C5_Witness ==
    \E s \in Tabs :
        /\ dash[s].streakData.longestStreak > dash[s].streakData.currentStreak
        /\ dash[s].streakData.currentStreak >= 1
        /\ dash[s].streakData.totalPoints >= 3

\* C6: totalPoints goes up by exactly 1 with each successful daily submission and stays
\* as it is in every other step (a refusal, a failed write), in the tab and in the
\* store; and a successful submission never falls on the calendar day of the log
\* before it, so totalPoints counts the distinct calendar days logged.
C6_PointPerDay ==
    [][\A s \in Tabs :
         LET before == dash[s].streakData
             after == dash'[s].streakData
         IN  IF DailyLogSucceeds(s)
             THEN /\ after.totalPoints = before.totalPoints + 1
                  /\ db'.streak_data[1].total_points = before.totalPoints + 1
                  /\ ( /\ before.lastLogDate # NoDate
                       /\ req[s].user.dailyHygieneData # <<>>
                       /\ toISODate(previousLog(s)) = before.lastLogDate )
                     => /\ toISODate(req[s].now) # toISODate(previousLog(s))
                        /\ toDateString(req[s].now, zone)
                              # toDateString(previousLog(s), zone)
             ELSE /\ after.totalPoints = before.totalPoints
                  /\ db'.streak_data = db.streak_data]_vars

\* the steps of tab s's submit handlers: the click that starts one, a first write
\* that succeeds, and a write that fails
SubmitStarts(s) == pc[s] = "idle" /\ pc'[s] # "idle"
FirstWriteApplied(s) == pc[s] # "idle" /\ pc'[s] # "idle" /\ pc'[s] # pc[s]
WriteFails(s) == pc[s] # "idle" /\ pc'[s] = "idle" /\ alert'[s] # "none"

\* C7: when a write of a daily submission (daily_hygiene_data, streak_data) or of a
\* weekly submission (dashboard_data, profiles) fails, the tab's state is what it was
\* before the submission: no step of the handler up to and including the failure
\* changes isDailySubmitted, isWeeklySubmitted, streakData, the inputs or the user
\* object; and the failure is reported by the handler's alert.
C7_FailedWriteChangesNothing ==
    [][\A s \in Tabs :
         LET kept == /\ user'[s] = user[s]
                     /\ dash'[s].isDailySubmitted = dash[s].isDailySubmitted
                     /\ dash'[s].isWeeklySubmitted = dash[s].isWeeklySubmitted
                     /\ dash'[s].streakData = dash[s].streakData
                     /\ dash'[s].dailyInputs = dash[s].dailyInputs
                     /\ dash'[s].weeklyInputs = dash[s].weeklyInputs
         IN  /\ (SubmitStarts(s) \/ FirstWriteApplied(s)) => kept
             /\ WriteFails(s) =>
                   /\ kept
                   /\ ~dash'[s].saving
                   /\ alert'[s] = IF pc[s] \in {"daily_hygiene_data", "streak_data"}
                                  THEN "Failed to save daily data"
                                  ELSE "Failed to save weekly data"]_vars

\* the streak_data write of a first daily log has failed after the daily_hygiene_data
\* write was applied, and the tab still shows the state from before the submission
C7_Witness ==
    \E s \in Tabs :
        /\ alert[s] = "Failed to save daily data" /\ pc[s] = "idle"
        /\ db.daily_hygiene_data # <<>> /\ db.streak_data = <<>>
        /\ ~dash[s].isDailySubmitted /\ ~dash[s].saving
        /\ dash[s].streakData.lastLogDate = NoDate
        /\ user[s].dailyHygieneData = <<>> /\ user[s].streakData = <<>>

\* C8: whatever the interleaving of two tabs' daily submissions, the persisted
\* streak_data is what a serial execution gives: total_points and longest_streak never
\* decrease, and a write for the day already persisted as last_log_date (which a serial
\* execution refuses) changes nothing, so no day is counted twice and no update is lost.
C8_TabsSerial ==
    [][db.streak_data # <<>> =>
         /\ db'.streak_data # <<>>
         /\ db'.streak_data[1].total_points >= db.streak_data[1].total_points
         /\ db'.streak_data[1].longest_streak >= db.streak_data[1].longest_streak
         /\ db'.streak_data[1].last_log_date = db.streak_data[1].last_log_date
            => db'.streak_data[1] = db.streak_data[1]]_vars

\* C9: the daily new-period check is true exactly when the daily row is absent or its
\* lastUpdated lies on another local calendar day than now (their local midnights
\* differ); it is not a rolling 24-hour window.
C9_DailyPeriodIsCalendarDay ==
    \A s \in Tabs :
        LET u == user[s]
        IN  /\ u.dailyHygieneData = <<>> => isNewDay(u, now, zone)
            /\ u.dailyHygieneData # <<>> =>
                  ( isNewDay(u, now, zone)
                    <=> setHoursZero(u.dailyHygieneData[1].lastUpdated, zone)
                          # setHoursZero(now, zone) )

\* the page was loaded less than 24 hours after the last daily log, on the next local
\* calendar day, and the check said "new day"
C9_Witness ==
    \E s \in Tabs :
        /\ user[s].dailyHygieneData # <<>>
        /\ now - user[s].dailyHygieneData[1].lastUpdated < DayMs
        /\ isNewDay(user[s], now, zone)
        /\ dash[s].isNewDay /\ ~dash[s].isDailySubmitted

\* C10: the weekly new-period check is true exactly when the weekly row is present and
\* now - lastUpdated is strictly more than seven days: false at 6 days, false at exactly
\* 7 days, true at 8 days, and false when there is no weekly row.
C10_WeeklyPeriodIsSevenDays ==
    \A s \in Tabs :
        LET u == user[s]
        IN  /\ u.dashboardData = <<>> => ~isNewWeek(u, now)
            /\ u.dashboardData # <<>> =>
                  LET age == now - u.dashboardData[1].lastUpdated
                  IN  /\ isNewWeek(u, now) <=> age > 7 * DayMs
                      /\ age = 6 * DayMs => ~isNewWeek(u, now)
                      /\ age = 7 * DayMs => ~isNewWeek(u, now)
                      /\ age = 8 * DayMs => isNewWeek(u, now)

\* the page was loaded exactly 8 days after the last weekly log and the check said
\* "new week"
C10_Witness ==
    \E s \in Tabs :
        /\ user[s].dashboardData # <<>>
        /\ now - user[s].dashboardData[1].lastUpdated = 8 * DayMs
        /\ dash[s].isNewWeek /\ ~dash[s].isWeeklySubmitted

\* C11: in every reachable state, when the local calendar day of
\* dailyHygieneData.lastUpdated is not today's the displayed isDailySubmitted is
\* false, and when more than seven days have passed since dashboardData.lastUpdated
\* the displayed isWeeklySubmitted is false: at load, after every re-sync, and when
\* the clock crosses the boundary while the dashboard stays open.
C11_StaleFlagsForcedFalse ==
    \A s \in Tabs :
        /\ ( /\ user[s].dailyHygieneData # <<>>
             /\ toDateString(user[s].dailyHygieneData[1].lastUpdated, zone)
                   # toDateString(now, zone) )
           => ~dash[s].isDailySubmitted
        /\ ( /\ user[s].dashboardData # <<>>
             /\ now - user[s].dashboardData[1].lastUpdated > 7 * DayMs )
           => ~dash[s].isWeeklySubmitted

\* C12: changing a daily input leaves isDailySubmitted false and isWeeklySubmitted as
\* it was; changing a weekly input leaves isWeeklySubmitted false and isDailySubmitted
\* as it was; so an input change never sets a flag to true.
C12_InputChangeResetsFlag ==
    [][\A s \in Tabs :
         /\ \A m \in DailyMoves :
               handleDailyInputChange(s, m.field, m.value)
               => /\ ~dash'[s].isDailySubmitted
                  /\ dash'[s].isWeeklySubmitted = dash[s].isWeeklySubmitted
                  /\ dash'[s].dailyInputs[m.field] = m.value
         /\ \A m \in WeeklyMoves :
               handleWeeklyInputChange(s, m.field, m.value)
               => /\ ~dash'[s].isWeeklySubmitted
                  /\ dash'[s].isDailySubmitted = dash[s].isDailySubmitted
                  /\ dash'[s].weeklyInputs[m.field] = m.value]_vars

\* today's daily log was submitted and a daily input was then moved away from the
\* logged value: the daily flag is down while the weekly flag still stands
C12_Witness ==
    \E s \in Tabs :
        /\ user[s].dailyHygieneData # <<>> /\ user[s].dailyHygieneData[1].isSubmitted
        /\ ~isNewDay(user[s], now, zone)
        /\ dash[s].dailyInputs # user[s].dailyHygieneData[1].inputs
        /\ ~dash[s].isDailySubmitted
        /\ dash[s].isWeeklySubmitted

\* the sum of the entries of breakdown b over the categories of S
RECURSIVE SumOver(_, _)
SumOver(b, S) ==
    IF S = {} THEN 0
    ELSE LET c == CHOOSE x \in S : TRUE IN b[c] + SumOver(b, S \ {c})

\* C13: for every input and household size, grandTotal = directTotal + virtualTotal
\* exactly; directTotal is the sum of the seven breakdown entries the isDirect list
\* names (Showers, Baths, Toilet, Faucets, Laundry, Dishes, Garden) and virtualTotal
\* the sum of the six others, so the direct/virtual filter partitions the breakdown
\* consistently with the totals.
C13_TotalsPartition ==
    \A s \in Tabs :
        LET st == statsOf(s)
            direct == {c \in DOMAIN st.breakdown : isDirect(c)}
            virtual == {c \in DOMAIN st.breakdown : ~isDirect(c)}
        IN  /\ st.grandTotal = st.directTotal + st.virtualTotal
            /\ Cardinality(direct) = 7 /\ Cardinality(virtual) = 6
            /\ virtual = {"Clothing", "Diet", "Transport", "AI Usage", "Recycling",
                          "Compost"}
            /\ SumOver(st.breakdown, direct) = st.directTotal
            /\ SumOver(st.breakdown, virtual) = st.virtualTotal

\* a household of three with sliders moved: shared, personal and credit entries all
\* contribute to the totals
C13_Witness ==
    \E s \in Tabs :
        /\ user[s].householdSize = 3
        /\ dash[s].weeklyInputs.laundryLoads = 10 /\ dash[s].dailyInputs.baths = 1
        /\ statsOf(s).breakdown.Garden > 0 /\ statsOf(s).breakdown.Compost < 0
        /\ statsOf(s).directTotal > 0 /\ statsOf(s).virtualTotal > 0

\* C14: for every input and household size, score is an integer with 0 <= score <= 100.
C14_ScoreInRange ==
    \A s \in Tabs : statsOf(s).score \in 0..100

\* usage so low that the raw score is above 100: the score is capped at 100
C14_Witness ==
    \E s \in Tabs :
        /\ statsOf(s).grandTotal < 1400 * statsOf(s).den
        /\ statsOf(s).score = 100

\* C15: score = clamp(round(100 - (grandTotal - 1500) / 40), 0, 100), where round(x)
\* is the integer r with r <= x + 1/2 < r + 1; grandTotal = 1500 gives 100,
\* grandTotal = 5500 gives 0, and every grandTotal >= 5500 gives 0.
C15_ScoreFormula ==
    \A s \in Tabs :
        LET st == statsOf(s)
            \* 100 - (grandTotal - 1500) / 40 = n / d
            n == 5500 * st.den - st.grandTotal
            d == 40 * st.den
        IN  /\ \E r \in (-400)..400 :
                  /\ 2 * r * d <= 2 * n + d /\ 2 * n + d < 2 * (r + 1) * d
                  /\ st.score = IF r < 0 THEN 0 ELSE IF r > 100 THEN 100 ELSE r
            /\ st.grandTotal = 1500 * st.den => st.score = 100
            /\ st.grandTotal >= 5500 * st.den => st.score = 0

\* the sliders stand so that grandTotal is exactly 5500 gallons: the score is 0
C15_Witness ==
    \E s \in Tabs :
        /\ statsOf(s).grandTotal = 5500 * statsOf(s).den
        /\ statsOf(s).score = 0

\* C16, as the specification states it: a score of 100 requires grandTotal <= 1500, so
\* every input whose grandTotal is greater than 1500 has a score strictly below 100.
C16_HundredNeeds1500 ==
    \A s \in Tabs :
        statsOf(s).grandTotal > 1500 * statsOf(s).den => statsOf(s).score < 100

\* C16, amended: because the raw score is rounded, the score is 100 exactly when
\* grandTotal <= 1520 and 0 exactly when grandTotal > 5480; in between it is
\* within one half of the line 100 - (grandTotal - 1500) / 40, which falls by one
\* point per 40 gallons.
C16_HundredUpTo1520 ==
    \A s \in Tabs :
        LET st == statsOf(s)
            n == 5500 * st.den - st.grandTotal
            d == 40 * st.den
        IN  /\ st.score = 100 <=> st.grandTotal <= 1520 * st.den
            /\ st.score = 0 <=> st.grandTotal > 5480 * st.den
            /\ ( st.grandTotal > 1520 * st.den /\ st.grandTotal <= 5480 * st.den )
               => /\ 2 * (st.score * d - n) <= d
                  /\ 2 * (n - st.score * d) <= d

\* grandTotal is above 1500 gallons, by no more than 20, and the score is 100
C16_Witness ==
    \E s \in Tabs :
        /\ statsOf(s).grandTotal > 1500 * statsOf(s).den
        /\ statsOf(s).grandTotal <= 1520 * statsOf(s).den
        /\ statsOf(s).score = 100

\* C17: trendPercent = (grandTotal - 4200) / 4200 * 100, against the fixed baseline
\* 4200: it is 0 only when grandTotal is exactly 4200, positive exactly when
\* grandTotal > 4200 and negative exactly when grandTotal < 4200.
C17_TrendSign ==
    \A s \in Tabs :
        LET st == statsOf(s)
        IN  /\ BASELINE_CANADIAN_WEEKLY = 4200
            /\ st.trend = st.grandTotal - 4200 * st.den
            /\ st.trend = 0 <=> st.grandTotal = 4200 * st.den
            /\ st.trend > 0 <=> st.grandTotal > 4200 * st.den
            /\ st.trend < 0 <=> st.grandTotal < 4200 * st.den

\* the sliders stand so that grandTotal is exactly the baseline: the trend is 0
C17_Witness ==
    \E s \in Tabs :
        /\ statsOf(s).grandTotal = 4200 * statsOf(s).den
        /\ statsOf(s).trend = 0
        /\ dash[s].weeklyInputs # DEFAULT_WEEKLY_INPUTS

\* C18: the divisor of the shared categories is max(1, householdSize): at least 1 for
\* every stored householdSize, exactly 1 when it is 0, negative or missing; so laundry,
\* dishes and garden are never divided by zero or by a negative number.
C18_DivisorAtLeastOne ==
    \A s \in Tabs :
        LET h == user[s].householdSize
            st == statsOf(s)
        IN  /\ householdDivisor(h) >= 1
            /\ (h = Missing \/ h <= 0) => householdDivisor(h) = 1
            /\ (h # Missing /\ h >= 1) => householdDivisor(h) = h
            /\ st.den = 100 * householdDivisor(h)
            /\ st.breakdown.Laundry >= 0 /\ st.breakdown.Dishes >= 0
            /\ st.breakdown.Garden >= 0

\* a profile with a negative household size: the shared categories are divided by 1
C18_Witness ==
    \E s \in Tabs :
        /\ user[s].householdSize < 0 /\ user[s].householdSize # Missing
        /\ dash[s].weeklyInputs.laundryLoads = 10
        /\ statsOf(s).den = 100
        /\ statsOf(s).breakdown.Laundry = 10 * 3000

\* C19: each of the 13 breakdown entries is its input times the fixed rate: showers
\* 2.1 x 7, faucets 1.5 x 7 and toilet 1.6 x 7 per daily unit; baths 40; laundry 30,
\* dishes 6 and garden 12 per unit divided by the household divisor; clothing 1400,
\* diet 450, transport 0.5 and AI 0.13 per unit; recycling -5 and compost -15 per
\* unit, never positive. (An entry's value is its numerator over den.)
C19_BreakdownTable ==
    \A s \in Tabs :
        LET h == user[s].householdSize
            hd == IF h = Missing \/ h < 1 THEN 1 ELSE h
            st == statsOf(s)
            b == st.breakdown
            i == Combine(dash[s].dailyInputs, dash[s].weeklyInputs)
        IN  /\ 10 * b.Showers = i.showerMinutes * 21 * 7 * st.den
            /\ 10 * b.Faucets = i.faucetMinutes * 15 * 7 * st.den
            /\ 10 * b.Toilet = i.flushes * 16 * 7 * st.den
            /\ b.Baths = i.baths * 40 * st.den
            /\ hd * b.Laundry = i.laundryLoads * 30 * st.den
            /\ hd * b.Dishes = i.dishwasherLoads * 6 * st.den
            /\ hd * b.Garden = i.gardenMinutes * 12 * st.den
            /\ b.Clothing = i.newClothingItems * 1400 * st.den
            /\ b.Diet = i.meatMeals * 450 * st.den
            /\ 2 * b.Transport = i.milesDriven * st.den
            /\ 100 * b["AI Usage"] = i.aiQueries * 13 * st.den
            /\ b.Recycling = i.recyclingItems * (-5) * st.den
            /\ b.Compost = i.compostLbs * (-15) * st.den
            /\ b.Recycling <= 0 /\ b.Compost <= 0
            /\ Cardinality(DOMAIN b) = 13

\* a household of two with sliders moved: ten laundry loads count as 150 gallons
C19_Witness ==
    \E s \in Tabs :
        /\ user[s].householdSize = 2
        /\ dash[s].weeklyInputs.laundryLoads = 10
        /\ dash[s].dailyInputs.showerMinutes = 12
        /\ 2 * statsOf(s).breakdown.Laundry = 10 * 30 * statsOf(s).den

\* the inputs of the worked example, in a household of one
WorkedExample(s) ==
    /\ dash[s].dailyInputs =
          [showerMinutes |-> 8, baths |-> 1, faucetMinutes |-> 5, flushes |-> 5]
    /\ dash[s].weeklyInputs =
          [laundryLoads |-> 4, dishwasherLoads |-> 5, gardenMinutes |-> 15,
           meatMeals |-> 7, newClothingItems |-> 1, milesDriven |-> 100,
           recyclingItems |-> 5, compostLbs |-> 2, aiQueries |-> 20]
    /\ user[s].householdSize = 1

\* the totals of the worked example: 596.1, 4547.6 and 5143.7 gallons, and a trend
\* of about +22.47 % (between 22.465 and 22.475)
WorkedTotals(s) ==
    LET st == statsOf(s)
    IN  /\ st.den = 100
        /\ st.directTotal = 59610 /\ st.virtualTotal = 454760
        /\ st.grandTotal = 514370
        /\ 22465 * 4200 <= 1000 * st.trend /\ 1000 * st.trend < 22475 * 4200

\* C20, as the specification states it: the worked example yields directTotal 596.1,
\* virtualTotal 4547.6, grandTotal 5143.7, a trend of about +22.47 % and a score that
\* clamps to 0.
C20_ExampleScoreZero ==
    \A s \in Tabs : WorkedExample(s) => WorkedTotals(s) /\ statsOf(s).score = 0

\* C20, amended: the worked example yields those totals and that trend, and a score
\* of 9 (the raw score 100 - 3643.7 / 40 = 8.9075, rounded; nothing is clamped).
C20_ExampleScoreNine ==
    \A s \in Tabs : WorkedExample(s) => WorkedTotals(s) /\ statsOf(s).score = 9

\* the sliders stand as in the worked example and the score shown is 9
C20_Witness ==
    \E s \in Tabs : WorkedExample(s) /\ statsOf(s).score = 9

\* the step in which tab s's weekly submission completes: both writes were applied
WeeklyLogSucceeds(s) ==
    pc[s] = "profiles" /\ pc'[s] = "idle" /\ alert'[s] = "none"

\* m is x rounded to the nearest integer (a tie going up), for x = n / d and d > 0
IsRounded(m, n, d) == 2 * m * d <= 2 * n + d /\ 2 * n + d < 2 * (m + 1) * d

\* C21: a successful weekly submission persists profiles.monthly_usage =
\* round(grandTotal x 4), grandTotal being the calculator's result for the combined
\* inputs saved to dashboard_data by the same submission, and sets user.monthlyUsage
\* to the same value; no other step of the dashboard writes monthly_usage.
C21_MonthlyUsagePublished ==
    [][\A s \in Tabs :
         IF WeeklyLogSucceeds(s)
         THEN LET st == stats(db'.dashboard_data[1].inputs, user[s].householdSize)
                  m == db'.profiles.monthly_usage
              IN  /\ db'.dashboard_data[1].inputs = req[s].inputs
                  /\ IsRounded(m, 4 * st.grandTotal, st.den)
                  /\ user'[s].monthlyUsage = m
                  /\ user'[s].dashboardData[1].inputs = db'.dashboard_data[1].inputs
         ELSE db'.profiles.monthly_usage = db.profiles.monthly_usage]_vars

\* a week was logged with a moved slider and its total, times four, is published
C21_Witness ==
    \E s \in Tabs :
        /\ db.dashboard_data # <<>>
        /\ db.dashboard_data[1].inputs.recyclingItems = 6
        /\ db.profiles.monthly_usage > 0
        /\ user[s].monthlyUsage = db.profiles.monthly_usage
        /\ newMonthlyUsage(db.dashboard_data[1].inputs, user[s].householdSize)
              = db.profiles.monthly_usage

\* DEFAULT_INPUTS: the combined defaults the file declares (no initializer reads it)
DEFAULT_INPUTS ==
    [showerMinutes |-> 8, baths |-> 1, faucetMinutes |-> 5, flushes |-> 5,
     laundryLoads |-> 4, dishwasherLoads |-> 5, gardenMinutes |-> 15,
     meatMeals |-> 7, newClothingItems |-> 1, milesDriven |-> 100,
     recyclingItems |-> 5, compostLbs |-> 2, aiQueries |-> 20]

\* nothing is persisted for the user and tab s shows the dashboard as it loads
FirstLoad(s) ==
    /\ db.daily_hygiene_data = <<>>
    /\ db.dashboard_data = <<>>
    /\ db.streak_data = <<>>
    /\ pc[s] = "idle"
    /\ user[s] = fetchUserProfile(db)
    /\ dash[s] = Mount(user[s], now, zone)

\* C22: with no inputs and no streak persisted, the dashboard loads with combined
\* inputs equal to DEFAULT_INPUTS (baths 1 among them) and the streak in the
\* NoHistory state (0, 0, absent, 0), and the first daily log made from there
\* gives currentStreak 1.
C22_LoadsDefaultInputs ==
    [][\A s \in Tabs :
         /\ FirstLoad(s) =>
               /\ Combine(dash[s].dailyInputs, dash[s].weeklyInputs) = DEFAULT_INPUTS
               /\ dash[s].streakData = [currentStreak |-> 0, longestStreak |-> 0,
                                         lastLogDate |-> NoDate, totalPoints |-> 0]
         /\ (db.streak_data = <<>> /\ DailyLogSucceeds(s)) =>
               db'.streak_data[1].current_streak = 1]_vars

\* the credits of the breakdown b are larger than all its other entries together
CreditsExceed(b) ==
    LET credits == {"Recycling", "Compost"}
    IN  SumOver(b, DOMAIN b \ credits) < 0 - SumOver(b, credits)

\* C23: grandTotal is never floor-clamped at zero: for inputs within the slider
\* ranges whose recycling and compost credits exceed the positive contributions,
\* grandTotal is negative (the plain sum of the breakdown), score is 100, and the
\* value round(grandTotal x 4) published by a weekly submission is negative too.
C23_NegativeTotalPublished ==
    [][\A s \in Tabs :
         /\ LET st == statsOf(s)
            IN  CreditsExceed(st.breakdown) =>
                  /\ st.grandTotal < 0
                  /\ st.grandTotal = SumOver(st.breakdown, DOMAIN st.breakdown)
                  /\ st.score = 100
         /\ (WeeklyLogSucceeds(s)
             /\ CreditsExceed(stats(req[s].inputs, req[s].user.householdSize).breakdown))
            => LET st == stats(req[s].inputs, req[s].user.householdSize)
               IN  /\ db'.profiles.monthly_usage < 0
                   /\ IsRounded(db'.profiles.monthly_usage, 4 * st.grandTotal, st.den)
                   /\ user'[s].monthlyUsage < 0]_vars

\* a week whose credits exceed everything else has been logged and the usage
\* published for it is negative, with a score of 100 on display
C23_Witness ==
    \E s \in Tabs :
        /\ pc[s] = "idle"
        /\ dash[s].isWeeklySubmitted
        /\ db.dashboard_data[1].inputs.recyclingItems = 50
        /\ db.dashboard_data[1].inputs.meatMeals = 1
        /\ CreditsExceed(statsOf(s).breakdown)
        /\ statsOf(s).grandTotal < 0 /\ statsOf(s).score = 100
        /\ db.profiles.monthly_usage < 0
        /\ user[s].monthlyUsage = db.profiles.monthly_usage

\* tab s's Log Today click passes the same-day guard with a streak already on record
GuardPassed(s) ==
    /\ handleDailySubmit(s)
    /\ dash[s].streakData.lastLogDate # NoDate
    /\ ~sameDayGuard(dash[s].streakData, now, zone)

\* C24: calculateStreak's same-day branch is unreachable: whenever handleDailySubmit
\* passes the same-day guard and calls calculateStreak with a present lastLogDate,
\* diffDays is never 0, at every clock time and in every time zone.
C24_SameDayBranchUnreachable ==
    [][\A s \in Tabs :
         GuardPassed(s) => diffDays(dash[s].streakData.lastLogDate, now, zone) # 0]_vars

\* tab s shows the 'Log Today' prompt for a new daily period: a daily log is on
\* record, the new-period check is true now, and the log is not marked submitted
NewDayPrompt(s) ==
    /\ user[s].dailyHygieneData # <<>>
    /\ dash[s].streakData.lastLogDate # NoDate
    /\ isNewDay(user[s], now, zone)
    /\ ~dash[s].isDailySubmitted

\* C25: the streak state machine has no terminal state: from every reachable state
\* a daily submission made on a calendar day later than the last log's, in
\* particular whenever the daily new-period check is true and the 'Log Today'
\* prompt is shown, is accepted rather than refused as a duplicate, and moves the
\* streak to Active(k, today) with k >= 1.
C25_NewDayLogAccepted ==
    [][\A s \in Tabs :
         (handleDailySubmit(s) /\ NewDayPrompt(s))
         => /\ alert'[s] # "already logged today"
            /\ pc'[s] = "daily_hygiene_data"
            /\ req'[s].streak.currentStreak >= 1
            /\ req'[s].streak.lastLogDate = toISODate(now)]_vars

\* today's daily log was saved in full and tab s has since edited a daily input:
\* the log is unconfirmed and the sliders differ from the saved row
EditedSameDay(s) ==
    /\ db.daily_hygiene_data # <<>> /\ db.streak_data # <<>>
    /\ db.daily_hygiene_data[1].is_submitted
    /\ toDateString(db.daily_hygiene_data[1].last_updated, zone) = toDateString(now, zone)
    /\ db.streak_data[1].last_log_date = toISODate(now)
    /\ user[s] = fetchUserProfile(db)
    /\ ~dash[s].isDailySubmitted
    /\ dash[s].dailyInputs # db.daily_hygiene_data[1].inputs

\* C26: after a successful daily log, if the user edits a daily input the same day
\* (isDailySubmitted becomes false), a subsequent 'Log Today' on that same day
\* persists the edited inputs and returns isDailySubmitted to true: the click starts
\* a submission carrying the edited inputs instead of being refused.
C26_EditedLogResubmitted ==
    [][\A s \in Tabs :
         (handleDailySubmit(s) /\ EditedSameDay(s))
         => /\ alert'[s] = "none"
            /\ pc'[s] = "daily_hygiene_data"
            /\ req'[s].inputs = dash[s].dailyInputs]_vars

\* C27: a daily submission is atomic at the persistence boundary: after any run of
\* handleDailySubmit (no handler is waiting), including one whose streak_data upsert
\* failed after the daily_hygiene_data upsert succeeded, the persisted
\* daily_hygiene_data row is marked submitted with today's timestamp only if the
\* persisted streak_data row has last_log_date = today.
C27_DailyWritesAtomic ==
    ((\A s \in Tabs : pc[s] = "idle")
     /\ db.daily_hygiene_data # <<>>
     /\ db.daily_hygiene_data[1].is_submitted
     /\ toISODate(db.daily_hygiene_data[1].last_updated) = toISODate(now))
    => (db.streak_data # <<>> /\ db.streak_data[1].last_log_date = toISODate(now))

\* C28: the two logs are independent in memory: a successful daily submission
\* leaves the weekly inputs and the displayed isWeeklySubmitted exactly as they were
\* (unsaved weekly edits included), and a successful weekly submission likewise
\* leaves the daily inputs and isDailySubmitted.
C28_LogsIndependent ==
    [][\A s \in Tabs :
         /\ DailyLogSucceeds(s) =>
               /\ dash'[s].weeklyInputs = dash[s].weeklyInputs
               /\ dash'[s].isWeeklySubmitted = dash[s].isWeeklySubmitted
         /\ WeeklyLogSucceeds(s) =>
               /\ dash'[s].dailyInputs = dash[s].dailyInputs
               /\ dash'[s].isDailySubmitted = dash[s].isDailySubmitted]_vars

\* C29: whenever a dashboard_data row exists (and no handler is waiting on a write),
\* the persisted profiles.monthly_usage equals round(4 x grandTotal) computed from
\* the persisted dashboard_data inputs and the persisted household_size, also after
\* a weekly submission whose profiles update failed and after the Account page
\* changed household_size.
C29_PublishedUsageConsistent ==
    ((\A s \in Tabs : pc[s] = "idle") /\ db.dashboard_data # <<>>)
    => db.profiles.monthly_usage
          = newMonthlyUsage(db.dashboard_data[1].inputs, db.profiles.household_size)

\* C30: the shared saving flag brackets every submission: saving is true exactly
\* while a daily or weekly submission is in flight, which disables both submit
\* buttons so that no second submission starts, and every submission (successful,
\* failed on a write, or refused as a same-day duplicate) sets saving back to false
\* in the end.
C30_SavingBrackets ==
    /\ [](dash[1].saving <=> pc[1] # "idle")
    /\ [][pc[1] # "idle" => ~(handleDailySubmit(1) \/ handleWeeklySubmit(1))]_vars
    /\ [][handleDailySubmit(1) /\ sameDayGuard(dash[1].streakData, now, zone)
            => ~dash'[1].saving]_vars
    /\ (dash[1].saving ~> ~dash[1].saving)

\* a week and a day were logged and a same-day duplicate has just been refused in
\* this session: no handler is waiting and saving is false again
C30_Witness ==
    /\ ~dash[1].saving /\ pc[1] = "idle"
    /\ alert[1] = "already logged today"
    /\ db.dashboard_data # <<>>
    /\ db.streak_data # <<>>

====
